---- MODULE Spec2Model ----
(***************************************************************************)
(* A model of the stringify-pro library (src/src/StringUtils.ts).          *)
(*                                                                         *)
(* A JavaScript string is a sequence of UTF-16 code units (integers); a    *)
(* byte buffer is a sequence of integers in 0..255.  An argument is a      *)
(* record [t, s]: t is what typeof/null checks see, s the code units when  *)
(* t = "string".  The outcome of a call is a record [k, v, msg]: k = "ok"  *)
(* with the returned value v, or k = the class of the error thrown with    *)
(* its message.                                                            *)
(*                                                                         *)
(* The library keeps no state between calls.  The state of the model is    *)
(* the last call: the operation, its arguments, its outcome, and what it   *)
(* asked of the platform's random source.                                  *)
(***************************************************************************)
EXTENDS Integers, Sequences, FiniteSets, TLC

VARIABLES op, args, result, rnd

vars == <<op, args, result, rnd>>

(***************************************************************************)
(* Bounds of the explored inputs.                                          *)
(***************************************************************************)
MaxLen == 3

\* all sequences over S of length 0..n
SeqUpTo(S, n) == UNION {[1..k -> S] : k \in 0..n}

(***************************************************************************)
(* Characters.                                                             *)
(***************************************************************************)
IsUpper(c) == c \in 65..90
IsLower(c) == c \in 97..122
IsDigit(c) == c \in 48..57
IsAlnum(c) == IsUpper(c) \/ IsLower(c) \/ IsDigit(c)

\* \w of a JavaScript regular expression
IsWord(c) == IsAlnum(c) \/ c = 95

\* \s of a JavaScript regular expression (WhiteSpace and LineTerminator)
IsSpace(c) ==
    c \in ({9, 10, 11, 12, 13, 32, 160, 5760, 8232, 8233, 8239, 8287, 12288, 65279}
             \cup (8192..8202))

\* the characters '.' of a regular expression does not match
IsLineTerminator(c) == c \in {10, 13, 8232, 8233}

\* String.prototype.toUpperCase / toLowerCase on one code unit.  The texts
\* explored hold ASCII characters and code units that have no case mapping.
ToUpper(c) == IF IsLower(c) THEN c - 32 ELSE c
ToLower(c) == IF IsUpper(c) THEN c + 32 ELSE c

MapSeq(F(_), s) == [i \in 1..Len(s) |-> F(s[i])]

Reverse(s) == [i \in 1..Len(s) |-> s[Len(s) + 1 - i]]

RECURSIVE Flatten(_)
Flatten(ss) == IF ss = <<>> THEN <<>> ELSE Head(ss) \o Flatten(Tail(ss))

\* Array.prototype.join
RECURSIVE Join(_, _)
Join(ss, sep) ==
    IF ss = <<>> THEN <<>>
    ELSE IF Len(ss) = 1 THEN ss[1]
    ELSE ss[1] \o sep \o Join(Tail(ss), sep)

\* String.prototype.split(c) for a one-character separator c: the pieces
\* between all occurrences of c (always at least one piece)
RECURSIVE SplitOn(_, _)
SplitOn(s, c) ==
    IF \A i \in 1..Len(s) : s[i] # c THEN <<s>>
    ELSE LET i == CHOOSE k \in 1..Len(s) :
                      s[k] = c /\ \A m \in 1..(k - 1) : s[m] # c
         IN  <<SubSeq(s, 1, i - 1)>> \o SplitOn(SubSeq(s, i + 1, Len(s)), c)

\* s.replace(/X+/g, rep): every maximal run of characters of class X
\* becomes rep
RECURSIVE ReplaceRuns(_, _, _)
ReplaceRuns(s, X(_), rep) ==
    IF s = <<>> THEN <<>>
    ELSE IF X(s[1])
         THEN LET n == CHOOSE k \in 1..Len(s) :
                           /\ \A m \in 1..k : X(s[m])
                           /\ (k < Len(s) => ~X(s[k + 1]))
              IN  rep \o ReplaceRuns(SubSeq(s, n + 1, Len(s)), X, rep)
         ELSE <<s[1]>> \o ReplaceRuns(Tail(s), X, rep)

\* s.replace(/X/g, ''): every character of class X is removed
RemoveAll(s, X(_)) == SelectSeq(s, LAMBDA c : ~X(c))

\* String.prototype.trim
Trim(s) ==
    IF \A i \in 1..Len(s) : IsSpace(s[i]) THEN <<>>
    ELSE LET a == CHOOSE k \in 1..Len(s) :
                      ~IsSpace(s[k]) /\ \A m \in 1..(k - 1) : IsSpace(s[m])
             b == CHOOSE k \in 1..Len(s) :
                      ~IsSpace(s[k]) /\ \A m \in (k + 1)..Len(s) : IsSpace(s[m])
         IN  SubSeq(s, a, b)

(***************************************************************************)
(* Arguments and outcomes.                                                 *)
(***************************************************************************)
Str(s) == [t |-> "string", s |-> s]

NotText == {[t |-> "null", s |-> <<>>], [t |-> "undefined", s |-> <<>>],
            [t |-> "number", s |-> <<>>], [t |-> "object", s |-> <<>>]}

Ok(v) == [k |-> "ok", v |-> v, msg |-> ""]

Throw(class, msg) == [k |-> class, v |-> <<>>, msg |-> msg]

NoRandom == [called |-> FALSE, delivered |-> FALSE, bytes |-> <<>>]

validateString(str, functionName) ==
    IF str.t \in {"null", "undefined"}
    THEN Throw("ValidationError", functionName \o ": Input cannot be null or undefined")
    ELSE IF str.t # "string"
    THEN Throw("ValidationError", functionName \o ": Input must be a string")
    ELSE Ok(str.s)

(***************************************************************************)
(* Text transforms.                                                        *)
(***************************************************************************)
capitalize(str) ==
    LET v == validateString(str, "capitalize")
    IN  IF v.k # "ok" THEN v
        ELSE IF Len(v.v) = 0 THEN Ok(v.v)
        ELSE Ok(<<ToUpper(v.v[1])>> \o Tail(v.v))

trimExtraSpaces(str) ==
    LET v == validateString(str, "trimExtraSpaces")
    IN  IF v.k # "ok" THEN v
        ELSE Ok(Trim(ReplaceRuns(v.v, IsSpace, <<32>>)))

removeSpecialChars(str, allowSpaces) ==
    LET v == validateString(str, "removeSpecialChars")
    IN  IF v.k # "ok" THEN v
        ELSE IF allowSpaces
             THEN Ok(RemoveAll(v.v, LAMBDA c : ~(IsWord(c) \/ IsSpace(c))))
             ELSE Ok(RemoveAll(v.v, LAMBDA c : ~IsWord(c)))

\* str.trim().split(/\s+/).filter(word => word.length > 0).length: the
\* number of maximal runs of non-whitespace characters
wordCount(str) ==
    LET v == validateString(str, "wordCount")
    IN  IF v.k # "ok" THEN v
        ELSE LET s == Trim(v.v)
             IN  Ok(Cardinality({i \in 1..Len(s) :
                                   ~IsSpace(s[i]) /\ (i = 1 \/ IsSpace(s[i - 1]))}))

isPalindrome(str, caseSensitive) ==
    LET v == validateString(str, "isPalindrome")
    IN  IF v.k # "ok" THEN v
        ELSE LET cleanStr == RemoveAll(v.v, LAMBDA c : ~IsAlnum(c))
                 processedStr == IF caseSensitive THEN cleanStr
                                 ELSE MapSeq(ToLower, cleanStr)
             IN  Ok(processedStr = Reverse(processedStr))

\* the separators of /[-_\s](.)/
IsCaseSep(c) == c \in {45, 95} \/ IsSpace(c)

\* s.replace(/[-_\s](.)/g, (_, char) => char.toUpperCase()): scanning from
\* the left, a separator followed by a character other than a line
\* terminator is dropped and that character upper-cased; the scan goes on
\* after the pair
RECURSIVE UpperAfterSep(_)
UpperAfterSep(s) ==
    IF s = <<>> THEN <<>>
    ELSE IF Len(s) >= 2 /\ IsCaseSep(s[1]) /\ ~IsLineTerminator(s[2])
         THEN <<ToUpper(s[2])>> \o UpperAfterSep(SubSeq(s, 3, Len(s)))
         ELSE <<s[1]>> \o UpperAfterSep(Tail(s))

\* s.replace(/^(.)/, char => F(char))
MapFirst(s, F(_)) ==
    IF s # <<>> /\ ~IsLineTerminator(s[1]) THEN <<F(s[1])>> \o Tail(s) ELSE s

\* s.replace(/([A-Z])/g, sep + '$1')
RECURSIVE BeforeUpper(_, _)
BeforeUpper(s, sep) ==
    IF s = <<>> THEN <<>>
    ELSE (IF IsUpper(s[1]) THEN <<sep, s[1]>> ELSE <<s[1]>>)
             \o BeforeUpper(Tail(s), sep)

\* s.replace(/^c/, '')
DropLeading(s, c) == IF s # <<>> /\ s[1] = c THEN Tail(s) ELSE s

\* the SNAKE and KEBAB branches: sep is the target separator, other the
\* separator that is folded into it together with whitespace
SeparatedCase(s, sep, other) ==
    LET marked == BeforeUpper(s, sep)
        folded == ReplaceRuns(marked, LAMBDA c : c = other \/ IsSpace(c), <<sep>>)
        lowered == MapSeq(ToLower, folded)
        headless == DropLeading(lowered, sep)
    IN  ReplaceRuns(headless, LAMBDA c : c = sep, <<sep>>)

\* convertCase rejecting the case type before it validates the text
convertCase_TypeFirst(str, type) ==
    IF type \notin {"camel", "pascal", "snake", "kebab"}
    THEN Throw("ValidationError", "Invalid case type")
    ELSE LET v == validateString(str, "convertCase")
         IN  IF v.k # "ok" THEN v
             ELSE CASE type = "camel" -> Ok(MapFirst(UpperAfterSep(v.v), ToLower))
                    [] type = "pascal" -> Ok(MapFirst(UpperAfterSep(v.v), ToUpper))
                    [] type = "snake" -> Ok(SeparatedCase(v.v, 95, 45))
                    [] OTHER -> Ok(SeparatedCase(v.v, 45, 95))

convertCase(str, type) ==
    LET v == validateString(str, "convertCase")
    IN  IF v.k # "ok" THEN v
        ELSE CASE type = "camel" -> Ok(MapFirst(UpperAfterSep(v.v), ToLower))
               [] type = "pascal" -> Ok(MapFirst(UpperAfterSep(v.v), ToUpper))
               [] type = "snake" -> Ok(SeparatedCase(v.v, 95, 45))
               [] type = "kebab" -> Ok(SeparatedCase(v.v, 45, 95))
               [] OTHER -> Throw("ValidationError", "Invalid case type")

(***************************************************************************)
(* Similarity.                                                             *)
(***************************************************************************)
Min2(x, y) == IF x <= y THEN x ELSE y

Max2(x, y) == IF x >= y THEN x ELSE y

\* matrixCell with a deletion costing 2
RECURSIVE matrixCell_DeleteCostsTwo(_, _, _, _)
matrixCell_DeleteCostsTwo(a, b, i, j) ==
    IF j = 0 THEN i
    ELSE IF i = 0 THEN j
    ELSE Min2(Min2(matrixCell_DeleteCostsTwo(a, b, i - 1, j) + 2,
                   matrixCell_DeleteCostsTwo(a, b, i, j - 1) + 1),
              matrixCell_DeleteCostsTwo(a, b, i - 1, j - 1)
                  + (IF a[i] = b[j] THEN 0 ELSE 1))

\* matrix[i][j] of levenshteinDistance
RECURSIVE matrixCell(_, _, _, _)
matrixCell(a, b, i, j) ==
    IF j = 0 THEN i
    ELSE IF i = 0 THEN j
    ELSE Min2(Min2(matrixCell(a, b, i - 1, j) + 1,
                   matrixCell(a, b, i, j - 1) + 1),
              matrixCell(a, b, i - 1, j - 1) + (IF a[i] = b[j] THEN 0 ELSE 1))

levenshteinDistance(a, b) == matrixCell(a, b, Len(a), Len(b))

\* A number returned by similarity: NaN, or the ratio
\* Number((1 - distance / maxLength).toFixed(2)) given in hundredths; the
\* number returned is that ratio times 100.
NaN == [nan |-> TRUE, ratio100 |-> 0]

Ratio(h) == [nan |-> FALSE, ratio100 |-> h]

\* Number((1 - distance / maxLength).toFixed(2)) in hundredths: 0 / 0 is NaN
\* and stays NaN; otherwise toFixed rounds to the nearest hundredth, the
\* larger one on a tie
fixedRatio(distance, maxLength) ==
    IF maxLength = 0 THEN NaN
    ELSE Ratio((200 * (maxLength - distance) + maxLength) \div (2 * maxLength))

similarity(str1, str2) ==
    LET v1 == validateString(str1, "similarity")
        v2 == validateString(str2, "similarity")
    IN  IF v1.k # "ok" THEN v1
        ELSE IF v2.k # "ok" THEN v2
        ELSE LET distance == levenshteinDistance(v1.v, v2.v)
                 maxLength == Max2(Len(v1.v), Len(v2.v))
             IN  Ok(fixedRatio(distance, maxLength))

(***************************************************************************)
(* Encodings of the platform.                                              *)
(***************************************************************************)
\* the lowercase hexadecimal digit of d in 0..15
HexDigit(d) == IF d < 10 THEN 48 + d ELSE 87 + d

IsHexDigit(c) == IsDigit(c) \/ c \in 97..102 \/ c \in 65..70

\* HexOfBytes with the bytes taken as characters (toString('latin1'))
HexOfBytes_Latin1(bytes) == bytes

\* Buffer.toString('hex'): two digits for every byte
HexOfBytes(bytes) ==
    Flatten([i \in 1..Len(bytes) |->
                <<HexDigit(bytes[i] \div 16), HexDigit(bytes[i] % 16)>>])

IsHighSurrogate(c) == c \in 55296..56319

IsLowSurrogate(c) == c \in 56320..57343

\* the UTF-8 bytes of one code point
Utf8OfCodePoint(cp) ==
    IF cp < 128 THEN <<cp>>
    ELSE IF cp < 2048 THEN <<192 + (cp \div 64), 128 + (cp % 64)>>
    ELSE IF cp < 65536
         THEN <<224 + (cp \div 4096), 128 + ((cp \div 64) % 64), 128 + (cp % 64)>>
    ELSE <<240 + (cp \div 262144), 128 + ((cp \div 4096) % 64),
           128 + ((cp \div 64) % 64), 128 + (cp % 64)>>

\* Utf8Encode with every code unit encoded on its own, surrogates included
Utf8Encode_PerCodeUnit(s) == Flatten([i \in 1..Len(s) |-> Utf8OfCodePoint(s[i])])

\* Buffer.from(str, 'utf8'): a surrogate pair is one code point, a surrogate
\* without its partner is encoded as U+FFFD
RECURSIVE Utf8Encode(_)
Utf8Encode(s) ==
    IF s = <<>> THEN <<>>
    ELSE IF IsHighSurrogate(s[1]) /\ Len(s) >= 2 /\ IsLowSurrogate(s[2])
         THEN Utf8OfCodePoint(65536 + (s[1] - 55296) * 1024 + (s[2] - 56320))
                  \o Utf8Encode(SubSeq(s, 3, Len(s)))
    ELSE IF IsHighSurrogate(s[1]) \/ IsLowSurrogate(s[1])
         THEN Utf8OfCodePoint(65533) \o Utf8Encode(Tail(s))
    ELSE Utf8OfCodePoint(s[1]) \o Utf8Encode(Tail(s))

(***************************************************************************)
(* Randomness and hashing.                                                 *)
(***************************************************************************)
\* What crypto.randomBytes did in a call: it delivered bytes, or it failed.
Delivered(bytes) == [called |-> TRUE, delivered |-> TRUE, bytes |-> bytes]

SourceFailed == [called |-> TRUE, delivered |-> FALSE, bytes |-> <<>>]

\* An outcome together with the use made of the random source.
Pure(out) == [out |-> out, rnd |-> NoRandom]

Drew(out, source) == [out |-> out, rnd |-> source]

UpperChars == [i \in 1..26 |-> 64 + i]

LowerChars == [i \in 1..26 |-> 96 + i]

NumberChars == [i \in 1..10 |-> 47 + i]

\* !@#$%^&*()_+-=[]{}|;:,.<>?
SymbolChars == <<33, 64, 35, 36, 37, 94, 38, 42, 40, 41, 95, 43, 45, 61, 91, 93,
                 123, 125, 124, 59, 58, 44, 46, 60, 62, 63>>

\* a flag of the options with its default: an absent flag takes the default
Flag(options, name, default) ==
    IF options[name] = "unset" THEN default ELSE options[name] = "true"

\* Alphabet with the symbols included unless they are switched off
Alphabet_SymbolsByDefault(options) ==
    (IF Flag(options, "uppercase", TRUE) THEN UpperChars ELSE <<>>)
        \o (IF Flag(options, "lowercase", TRUE) THEN LowerChars ELSE <<>>)
        \o (IF Flag(options, "numbers", TRUE) THEN NumberChars ELSE <<>>)
        \o (IF Flag(options, "symbols", TRUE) THEN SymbolChars ELSE <<>>)

\* the alphabet randomString builds from the options
Alphabet(options) ==
    (IF Flag(options, "uppercase", TRUE) THEN UpperChars ELSE <<>>)
        \o (IF Flag(options, "lowercase", TRUE) THEN LowerChars ELSE <<>>)
        \o (IF Flag(options, "numbers", TRUE) THEN NumberChars ELSE <<>>)
        \o (IF Flag(options, "symbols", FALSE) THEN SymbolChars ELSE <<>>)

\* chars[byte % chars.length], with the zero-based index of the code
PickChar(chars, byte) == chars[(byte % Len(chars)) + 1]

randomString(length, options, source) ==
    IF length < 1 THEN Pure(Throw("ValidationError", "Length must be positive"))
    ELSE LET chars == Alphabet(options)
         IN  IF Len(chars) = 0
             THEN Pure(Throw("ValidationError",
                             "At least one character type must be selected"))
             ELSE IF ~source.delivered
             THEN Drew(Throw("CryptoError", "Failed to generate random string"), source)
             ELSE Drew(Ok([i \in 1..Len(source.bytes) |->
                              PickChar(chars, source.bytes[i])]), source)

\* four hexadecimal digits for a number below 65536
Hex4(n) == <<HexDigit(n \div 4096), HexDigit((n \div 256) % 16),
             HexDigit((n \div 16) % 16), HexDigit(n % 16)>>

\* crypto.createHash(algorithm).update(str).digest('hex').  The digest is
\* taken to be a collision-free function of the algorithm and of the UTF-8
\* bytes of the text, written in hexadecimal digits; its true width is not
\* modelled.  An algorithm the platform does not know makes createHash throw.
SupportedAlgorithms == {"md5", "sha256", "sha512"}

digestHex(algorithm, str) ==
    Hex4(CHOOSE n \in 1..3 : <<"md5", "sha256", "sha512">>[n] = algorithm)
        \o HexOfBytes(Utf8Encode(str))

hash(str, algorithm) ==
    LET v == validateString(str, "hash")
    IN  IF v.k # "ok" THEN v
        ELSE IF algorithm \notin SupportedAlgorithms
        THEN Throw("CryptoError", "Failed to hash string using " \o algorithm)
        ELSE Ok(digestHex(algorithm, v.v))

\* crypto.pbkdf2Sync(password, salt, iterations, 64, 'sha512').toString('hex').
\* The derived key is taken to be a deterministic, collision-free function of
\* the password, the salt and the iteration count, written in hexadecimal
\* digits; its true width (128 digits) is not modelled.
pbkdf2Hex(password, salt, iterations) ==
    Hex4(iterations) \o Hex4(Len(salt))
        \o Flatten([i \in 1..Len(salt) |-> Hex4(salt[i])])
        \o Flatten([i \in 1..Len(password) |-> Hex4(password[i])])

\* pbkdf2Sync rejects an iteration count below 1
pbkdf2Throws(iterations) == iterations < 1

DefaultSaltRounds == 10

VerifyIterations == 10

SaltBytes == 16

hashWithSalt(str, saltRounds, source) ==
    LET v == validateString(str, "hashWithSalt")
    IN  IF v.k # "ok" THEN Pure(v)
        ELSE IF ~source.delivered
        THEN Drew(Throw("CryptoError", "Failed to hash string with salt"), source)
        ELSE IF pbkdf2Throws(saltRounds)
        THEN Drew(Throw("CryptoError", "Failed to hash string with salt"), source)
        ELSE LET salt == HexOfBytes(source.bytes)
                 hashed == pbkdf2Hex(v.v, salt, saltRounds)
             IN  Drew(Ok(salt \o <<58>> \o hashed), source)

\* verifyHash deriving with one iteration
verifyHash_OneIteration(str, hashedStr) ==
    LET v == validateString(str, "verifyHash")
        h == validateString(hashedStr, "verifyHash")
    IN  IF v.k # "ok" THEN v
        ELSE IF h.k # "ok" THEN h
        ELSE LET parts == SplitOn(h.v, 58)
             IN  Ok(Len(parts) >= 2 /\ pbkdf2Hex(v.v, parts[1], 1) = parts[2])

verifyHash(str, hashedStr) ==
    LET v == validateString(str, "verifyHash")
        h == validateString(hashedStr, "verifyHash")
    IN  IF v.k # "ok" THEN v
        ELSE IF h.k # "ok" THEN h
        ELSE LET parts == SplitOn(h.v, 58)
                 salt == parts[1]
                 computed == pbkdf2Hex(v.v, salt, VerifyIterations)
             IN  \* originalHash is undefined when there is no second part,
                 \* and no string is === undefined
                 Ok(Len(parts) >= 2 /\ computed = parts[2])

(***************************************************************************)
(* Base64.                                                                 *)
(***************************************************************************)
\* A-Z a-z 0-9 + /
Base64Chars == UpperChars \o LowerChars \o NumberChars \o <<43, 47>>

IsBase64Char(c) == IsAlnum(c) \/ c \in {43, 47}

B64(n) == Base64Chars[n + 1]

B64Value(c) == CHOOSE n \in 0..63 : Base64Chars[n + 1] = c

\* Buffer.toString('base64'): three bytes give four characters, the last
\* one or two bytes give two or three characters and '=' padding
RECURSIVE Base64OfBytes(_)
Base64OfBytes(b) ==
    IF Len(b) = 0 THEN <<>>
    ELSE IF Len(b) = 1
         THEN <<B64(b[1] \div 4), B64((b[1] % 4) * 16), 61, 61>>
    ELSE IF Len(b) = 2
         THEN <<B64(b[1] \div 4), B64(((b[1] % 4) * 16) + (b[2] \div 16)),
                B64((b[2] % 16) * 4), 61>>
    ELSE <<B64(b[1] \div 4), B64(((b[1] % 4) * 16) + (b[2] \div 16)),
           B64(((b[2] % 16) * 4) + (b[3] \div 64)), B64(b[3] % 64)>>
             \o Base64OfBytes(SubSeq(b, 4, Len(b)))

\* the bytes of a run of base64 characters: four characters give three
\* bytes, a tail of two or three characters gives one or two bytes, a tail of
\* one character gives none
RECURSIVE BytesOfQuads(_)
BytesOfQuads(c) ==
    IF Len(c) <= 1 THEN <<>>
    ELSE LET v == [i \in 1..Len(c) |-> B64Value(c[i])]
             b1 == (v[1] * 4) + (v[2] \div 16)
         IN  IF Len(c) = 2 THEN <<b1>>
             ELSE LET b2 == ((v[2] % 16) * 16) + (v[3] \div 4)
                  IN  IF Len(c) = 3 THEN <<b1, b2>>
                      ELSE <<b1, b2, ((v[3] % 4) * 64) + v[4]>>
                               \o BytesOfQuads(SubSeq(c, 5, Len(c)))

\* Buffer.from(str, 'base64') on a text that passed the format check:
\* decoding stops at the first '='
BytesOfBase64(s) ==
    LET n == Cardinality({i \in 1..Len(s) : \A m \in 1..i : s[m] # 61})
    IN  BytesOfQuads(SubSeq(s, 1, n))

IsContinuation(b) == b \in 128..191

\* the code units of one code point
UnitsOfCodePoint(cp) ==
    IF cp < 65536 THEN <<cp>>
    ELSE <<55296 + ((cp - 65536) \div 1024), 56320 + ((cp - 65536) % 1024)>>

\* the second byte a lead byte admits
SecondByteOk(lead, b) ==
    CASE lead = 224 -> b \in 160..191
      [] lead = 237 -> b \in 128..159
      [] lead = 240 -> b \in 144..191
      [] lead = 244 -> b \in 128..143
      [] OTHER -> IsContinuation(b)

\* Buffer.toString('utf8'): every maximal ill-formed part becomes U+FFFD
RECURSIVE Utf8Decode(_)
Utf8Decode(b) ==
    IF b = <<>> THEN <<>>
    ELSE LET lead == b[1]
             need == IF lead < 128 THEN 0
                     ELSE IF lead \in 194..223 THEN 1
                     ELSE IF lead \in 224..239 THEN 2
                     ELSE IF lead \in 240..244 THEN 3
                     ELSE -1
             \* the number of following bytes that continue the sequence
             got == Cardinality({k \in 1..need :
                        /\ k + 1 <= Len(b)
                        /\ \A m \in 1..k :
                              IF m = 1 THEN SecondByteOk(lead, b[2])
                              ELSE IsContinuation(b[m + 1])})
         IN  IF need = 0 THEN <<lead>> \o Utf8Decode(Tail(b))
             ELSE IF need = -1 THEN <<65533>> \o Utf8Decode(Tail(b))
             ELSE IF got < need
                  THEN <<65533>> \o Utf8Decode(SubSeq(b, got + 2, Len(b)))
             ELSE LET cp == CASE need = 1 -> ((lead - 192) * 64) + (b[2] - 128)
                              [] need = 2 -> ((lead - 224) * 4096)
                                               + ((b[2] - 128) * 64) + (b[3] - 128)
                              [] OTHER -> ((lead - 240) * 262144)
                                               + ((b[2] - 128) * 4096)
                                               + ((b[3] - 128) * 64) + (b[4] - 128)
                  IN  UnitsOfCodePoint(cp) \o Utf8Decode(SubSeq(b, need + 2, Len(b)))

base64Encode(str) ==
    LET v == validateString(str, "base64Encode")
    IN  IF v.k # "ok" THEN v
        ELSE Ok(Base64OfBytes(Utf8Encode(v.v)))

\* MatchesBase64Format with any number of trailing '=' (=* for ={0,2})
MatchesBase64Format_AnyPadding(s) ==
    LET n == Cardinality({i \in 1..Len(s) : \A m \in 1..i : IsBase64Char(s[m])})
    IN  \A i \in (n + 1)..Len(s) : s[i] = 61

\* /^[A-Za-z0-9+/]*={0,2}$/.test(s): the longest run of base64 characters
\* at the start, then at most two '=' up to the end of the text
MatchesBase64Format(s) ==
    LET n == Cardinality({i \in 1..Len(s) : \A m \in 1..i : IsBase64Char(s[m])})
    IN  /\ Len(s) - n <= 2
        /\ \A i \in (n + 1)..Len(s) : s[i] = 61

base64Decode(str) ==
    LET v == validateString(str, "base64Decode")
    IN  IF v.k # "ok" THEN v
        ELSE IF ~MatchesBase64Format(v.v)
        \* thrown inside the try, caught and thrown again by the catch
        THEN Throw("StringUtilError", "Invalid base64 string")
        ELSE Ok(Utf8Decode(BytesOfBase64(v.v)))

(***************************************************************************)
(* Slugs.                                                                  *)
(***************************************************************************)
\* 'a', 'an', 'the', 'and', 'or', 'but'
stopWords == {<<97>>, <<97, 110>>, <<116, 104, 101>>, <<97, 110, 100>>,
              <<111, 114>>, <<98, 117, 116>>}

\* What new RegExp makes of a one-character separator followed by '+', or
\* placed after '^' and before '$': most characters stand for themselves,
\* '.' for any character but a line terminator, and a quantifier or an
\* opening bracket makes a pattern that does not compile.
RegexAtom(c) ==
    IF c = 46 THEN "any"
    ELSE IF c \in {43, 42, 63, 40, 41, 91} THEN "invalid"
    ELSE "literal"

AtomMatches(atom, c, x) ==
    IF atom = "any" THEN ~IsLineTerminator(x) ELSE x = c

\* s.replace(/^X|X$/g, ''): a first character X and a last character X are
\* removed
StripEnds(s, X(_)) ==
    LET s1 == IF s # <<>> /\ X(s[1]) THEN Tail(s) ELSE s
    IN  IF s1 # <<>> /\ X(s1[Len(s1)]) THEN SubSeq(s1, 1, Len(s1) - 1) ELSE s1

removeStopWordsOf(s) ==
    Join(SelectSeq(SplitOn(s, 32), LAMBDA word : MapSeq(ToLower, word) \notin stopWords),
         <<32>>)

DefaultSeparator == 45

\* options.separator is one character, or 0 when the option is absent
separatorOf(options) ==
    IF options.separator = 0 THEN DefaultSeparator ELSE options.separator

\* the text slugify hands to its two separator patterns: lower-cased, stop
\* words removed, special characters stripped, whitespace runs replaced by
\* the separator
slugJoined(s, options) ==
    LET lowered == IF Flag(options, "lowercase", TRUE) THEN MapSeq(ToLower, s) ELSE s
        kept == IF Flag(options, "removeStopWords", FALSE)
                THEN removeStopWordsOf(lowered) ELSE lowered
        cleaned == RemoveAll(kept, LAMBDA c : ~(IsWord(c) \/ IsSpace(c) \/ c = 45))
    IN  ReplaceRuns(cleaned, IsSpace, <<separatorOf(options)>>)

slugify(str, options) ==
    LET v == validateString(str, "slugify")
        separator == separatorOf(options)
        atom == RegexAtom(separator)
        IsSep(x) == AtomMatches(atom, separator, x)
    IN  IF v.k # "ok" THEN v
        \* new RegExp throws, and nothing in slugify catches it
        ELSE IF atom = "invalid"
        THEN Throw("SyntaxError", "Invalid regular expression")
        ELSE Ok(StripEnds(ReplaceRuns(slugJoined(v.v, options), IsSep, <<separator>>),
                          IsSep))

(***************************************************************************)
(* The explored texts.                                                     *)
(***************************************************************************)
\* 'a', 'B', ' ', '-', '_', '!'
TextChars == {97, 66, 32, 45, 95, 33}

Texts == {Str(s) : s \in SeqUpTo(TextChars, MaxLen)}

TextArgs == Texts \cup NotText

CaseTypes == {"camel", "pascal", "snake", "kebab", "title"}

\* 'a', 'b'
SimChars == {97, 98}

SimArgs == {Str(s) : s \in SeqUpTo(SimChars, MaxLen)} \cup NotText

\* the bytes the random source is made to deliver
ByteChoices == {0, 58, 255}

FlagValues == {"true", "false", "unset"}

RandomStringOptions ==
    [numbers : FlagValues, symbols : FlagValues,
     uppercase : FlagValues, lowercase : FlagValues]

\* what the random source does when asked for n bytes
Sources(n) == {Delivered(b) : b \in [1..n -> ByteChoices]} \cup {SourceFailed}

\* the salts drawn: sixteen equal bytes
SaltSources == {Delivered([i \in 1..SaltBytes |-> b]) : b \in {0, 58}} \cup {SourceFailed}

\* 'A', e-acute, the euro sign, a high and a low surrogate
UnicodeChars == {65, 233, 8364, 55357, 56832}

UnicodeArgs == {Str(s) : s \in SeqUpTo(UnicodeChars, MaxLen)} \cup NotText

HashAlgorithms == SupportedAlgorithms \cup {"crc32"}

\* 'p', ':'
PasswordChars == {112, 58}

MaxPasswordLen == 2

PasswordArgs == {Str(s) : s \in SeqUpTo(PasswordChars, MaxPasswordLen)} \cup NotText

MaxRounds == 11

\* 'a', ':', 'z'
EncodedChars == {97, 58, 122}

EncodedArgs == {Str(s) : s \in SeqUpTo(EncodedChars, MaxLen)} \cup NotText

\* the texts a caller appends after a further ':': nothing, 'a', 'a:'
Suffixes == {<<>>, <<97>>, <<97, 58>>}

\* 'Q', 'w', '=', '!'
Base64TextChars == {81, 119, 61, 33}

MaxBase64Len == 4

Base64Args == {Str(s) : s \in SeqUpTo(Base64TextChars, MaxBase64Len)} \cup NotText

\* 'a', 'B', ' ', '-', '!'
SlugChars == {97, 66, 32, 45, 33}

SlugArgs == {Str(s) : s \in SeqUpTo(SlugChars, MaxLen)} \cup NotText

\* absent, '-', '_', '.', '+', '('
Separators == {0, 45, 95, 46, 43, 40}

SlugifyOptions ==
    [lowercase : {"unset", "false"}, separator : Separators,
     removeStopWords : {"unset", "true"}]

Init ==
    /\ op = "none"
    /\ args = <<>>
    /\ result = Ok(<<>>)
    /\ rnd = NoRandom

Capitalize ==
    /\ op = "none"
    /\ \E str \in TextArgs :
            /\ op' = "capitalize"
            /\ args' = [str |-> str]
            /\ result' = capitalize(str)
            /\ rnd' = NoRandom

TrimExtraSpaces ==
    /\ op = "none"
    /\ \E str \in TextArgs :
            /\ op' = "trimExtraSpaces"
            /\ args' = [str |-> str]
            /\ result' = trimExtraSpaces(str)
            /\ rnd' = NoRandom

RemoveSpecialChars ==
    /\ op = "none"
    /\ \E str \in TextArgs, allowSpaces \in BOOLEAN :
            /\ op' = "removeSpecialChars"
            /\ args' = [str |-> str, allowSpaces |-> allowSpaces]
            /\ result' = removeSpecialChars(str, allowSpaces)
            /\ rnd' = NoRandom

WordCount ==
    /\ op = "none"
    /\ \E str \in TextArgs :
            /\ op' = "wordCount"
            /\ args' = [str |-> str]
            /\ result' = wordCount(str)
            /\ rnd' = NoRandom

IsPalindrome ==
    /\ op = "none"
    /\ \E str \in TextArgs, caseSensitive \in BOOLEAN :
            /\ op' = "isPalindrome"
            /\ args' = [str |-> str, caseSensitive |-> caseSensitive]
            /\ result' = isPalindrome(str, caseSensitive)
            /\ rnd' = NoRandom

ConvertCase ==
    /\ op = "none"
    /\ \E str \in TextArgs, type \in CaseTypes :
            /\ op' = "convertCase"
            /\ args' = [str |-> str, type |-> type]
            /\ result' = convertCase(str, type)
            /\ rnd' = NoRandom

Similarity ==
    /\ op = "none"
    /\ \E str1 \in SimArgs, str2 \in SimArgs :
            /\ op' = "similarity"
            /\ args' = [str1 |-> str1, str2 |-> str2]
            /\ result' = similarity(str1, str2)
            /\ rnd' = NoRandom

RandomString ==
    /\ op = "none"
    /\ \E length \in (-1)..MaxLen, options \in RandomStringOptions :
            \E source \in Sources(length) :
                LET r == randomString(length, options, source)
                IN  /\ op' = "randomString"
                    /\ args' = [length |-> length, options |-> options]
                    /\ result' = r.out
                    /\ rnd' = r.rnd

Hash ==
    /\ op = "none"
    /\ \E str \in UnicodeArgs, algorithm \in HashAlgorithms :
            /\ op' = "hash"
            /\ args' = [str |-> str, algorithm |-> algorithm]
            /\ result' = hash(str, algorithm)
            /\ rnd' = NoRandom

\* hashWithSalt(str) or hashWithSalt(str, saltRounds)
HashWithSalt ==
    /\ op = "none"
    /\ \E str \in PasswordArgs, given \in BOOLEAN, rounds \in 0..MaxRounds :
            \E source \in SaltSources :
                LET saltRounds == IF given THEN rounds ELSE DefaultSaltRounds
                    r == hashWithSalt(str, saltRounds, source)
                IN  /\ op' = "hashWithSalt"
                    /\ args' = [str |-> str, given |-> given, saltRounds |-> saltRounds]
                    /\ result' = r.out
                    /\ rnd' = r.rnd

\* verifyHash on an encoded value the caller wrote
VerifyHash ==
    /\ op = "none"
    /\ \E str \in PasswordArgs, hashedStr \in EncodedArgs :
            /\ op' = "verifyHash"
            /\ args' = [str |-> str, hashedStr |-> hashedStr, madeBy |-> <<>>]
            /\ result' = verifyHash(str, hashedStr)
            /\ rnd' = NoRandom

\* verifyHash on the value hashWithSalt has just returned; madeBy keeps the
\* arguments of that call
VerifyHashOfResult ==
    /\ op = "hashWithSalt"
    /\ result.k = "ok"
    /\ \E str \in PasswordArgs :
            /\ op' = "verifyHash"
            /\ args' = [str |-> str, hashedStr |-> Str(result.v), madeBy |-> <<args>>]
            /\ result' = verifyHash(str, Str(result.v))
            /\ rnd' = NoRandom

\* verifyHash on the value hashWithSalt has just returned with ':' and a
\* further text appended by the caller
VerifyHashOfExtendedResult ==
    /\ op = "hashWithSalt"
    /\ result.k = "ok"
    /\ \E str \in PasswordArgs, extra \in Suffixes :
            LET hashedStr == Str(result.v \o <<58>> \o extra)
            IN  /\ op' = "verifyHash"
                /\ args' = [str |-> str, hashedStr |-> hashedStr, madeBy |-> <<>>]
                /\ result' = verifyHash(str, hashedStr)
                /\ rnd' = NoRandom

Base64Encode ==
    /\ op = "none"
    /\ \E str \in UnicodeArgs :
            /\ op' = "base64Encode"
            /\ args' = [str |-> str]
            /\ result' = base64Encode(str)
            /\ rnd' = NoRandom

\* base64Decode on a text the caller wrote
Base64Decode ==
    /\ op = "none"
    /\ \E str \in Base64Args :
            /\ op' = "base64Decode"
            /\ args' = [str |-> str, madeBy |-> <<>>]
            /\ result' = base64Decode(str)
            /\ rnd' = NoRandom

\* base64Decode on the text base64Encode has just returned; madeBy keeps
\* the arguments of that call
Base64DecodeOfResult ==
    /\ op = "base64Encode"
    /\ result.k = "ok"
    /\ op' = "base64Decode"
    /\ args' = [str |-> Str(result.v), madeBy |-> <<args>>]
    /\ result' = base64Decode(Str(result.v))
    /\ rnd' = NoRandom

Slugify ==
    /\ op = "none"
    /\ \E str \in SlugArgs, options \in SlugifyOptions :
            /\ op' = "slugify"
            /\ args' = [str |-> str, options |-> options]
            /\ result' = slugify(str, options)
            /\ rnd' = NoRandom

\* The call is over: the caller has its outcome and the library, which owns
\* no mutable field, is as it was after construction.
Return ==
    /\ op # "none"
    /\ op' = "none"
    /\ args' = <<>>
    /\ result' = Ok(<<>>)
    /\ rnd' = NoRandom

Next ==
    \/ Return
    \/ Capitalize
    \/ TrimExtraSpaces
    \/ RemoveSpecialChars
    \/ WordCount
    \/ IsPalindrome
    \/ ConvertCase
    \/ Similarity
    \/ RandomString
    \/ Hash
    \/ HashWithSalt
    \/ VerifyHash
    \/ VerifyHashOfResult
    \/ VerifyHashOfExtendedResult
    \/ Base64Encode
    \/ Base64Decode
    \/ Base64DecodeOfResult
    \/ Slugify

Spec == Init /\ [][Next]_vars

(***************************************************************************)
(* Properties.                                                             *)
(***************************************************************************)
IsText(arg) == arg.t = "string"

\* a verifyHash call on the value a hashWithSalt call returned
VerifiesOwnHash == op = "verifyHash" /\ args.madeBy # <<>>

\* C1: with h the value hashWithSalt(p) returned for the default round
\* count, verifyHash(p, h) returns true and verifyHash(q, h) returns false
\* for every text q other than p.
C1_VerifyAcceptsExactlyThePassword ==
    (VerifiesOwnHash /\ ~args.madeBy[1].given /\ IsText(args.str))
        => result = Ok(args.str = args.madeBy[1].str)

C1_Witness ==
    /\ VerifiesOwnHash
    /\ ~args.madeBy[1].given
    /\ args.madeBy[1].str = Str(<<112, 58>>)
    /\ args.str = Str(<<112>>)
    /\ rnd = NoRandom
    /\ result = Ok(FALSE)

\* the salt field of an encoded value: the text before its first ':'
SaltField(s) == SplitOn(s, 58)[1]

\* an encoded value with no ':' separator, or with a salt field that is not
\* hexadecimal
MalformedEncoded(s) ==
    \/ \A i \in 1..Len(s) : s[i] # 58
    \/ \E i \in 1..Len(SaltField(s)) : ~IsHexDigit(SaltField(s)[i])

\* C2: verifyHash on a structurally malformed encoded value fails with a
\* Crypto error and never returns false.
C2_MalformedEncodedIsCryptoError ==
    (op = "verifyHash" /\ IsText(args.str) /\ IsText(args.hashedStr)
        /\ MalformedEncoded(args.hashedStr.s))
        => result.k = "CryptoError"

\* C3: verifyHash(p, hashWithSalt(p, r)) returns true when r is 10 and false
\* for every other round count r.
C3_VerifyUsesTenIterations ==
    (VerifiesOwnHash /\ args.str = args.madeBy[1].str)
        => result = Ok(args.madeBy[1].saltRounds = 10)

C3_Witness ==
    /\ VerifiesOwnHash
    /\ args.madeBy[1].given
    /\ args.madeBy[1].saltRounds = 11
    /\ args.str = Str(<<112, 58>>)
    /\ args.str = args.madeBy[1].str
    /\ result = Ok(FALSE)

\* the public operations that take text, and their text arguments in the
\* order of the parameters
TextOperations ==
    {"capitalize", "convertCase", "trimExtraSpaces", "removeSpecialChars",
     "wordCount", "isPalindrome", "similarity", "hash", "hashWithSalt",
     "verifyHash", "base64Encode", "base64Decode", "slugify"}

TextArguments ==
    IF op = "similarity" THEN <<args.str1, args.str2>>
    ELSE IF op = "verifyHash" THEN <<args.str, args.hashedStr>>
    ELSE <<args.str>>

\* the message of the Validation error for an argument that is not text
InputViolation(arg) ==
    IF arg.t \in {"null", "undefined"}
    THEN op \o ": Input cannot be null or undefined"
    ELSE op \o ": Input must be a string"

\* C4: an operation that takes text fails with a Validation error when a
\* text argument is null, undefined or not a string, and it does so before
\* anything else: the error reports the first such argument, and the random
\* source has not been asked.
C4_ValidationComesFirst ==
    (op \in TextOperations /\ \E i \in 1..Len(TextArguments) : ~IsText(TextArguments[i]))
        => LET first == CHOOSE i \in 1..Len(TextArguments) :
                            /\ ~IsText(TextArguments[i])
                            /\ \A m \in 1..(i - 1) : IsText(TextArguments[m])
           IN  /\ result = Throw("ValidationError", InputViolation(TextArguments[first]))
               /\ ~rnd.called

C4_Witness ==
    /\ op = "convertCase"
    /\ args.str.t = "number"
    /\ args.type = "title"
    /\ result = Throw("ValidationError", "convertCase: Input must be a string")

\* the characters of the classes a configuration enables
EnabledCharacters(options) ==
    {c \in 33..126 :
        \/ Flag(options, "uppercase", TRUE) /\ IsUpper(c)
        \/ Flag(options, "lowercase", TRUE) /\ IsLower(c)
        \/ Flag(options, "numbers", TRUE) /\ IsDigit(c)
        \/ Flag(options, "symbols", FALSE)
             /\ c \in {33, 64, 35, 36, 37, 94, 38, 42, 40, 41, 95, 43, 45, 61, 91,
                       93, 123, 125, 124, 59, 58, 44, 46, 60, 62, 63}}

\* C5: for a length n >= 1 and a configuration that enables a class,
\* randomString returns n characters of the enabled classes, whatever bytes
\* the random source delivers.
C5_RandomStringLengthAndAlphabet ==
    (op = "randomString" /\ args.length >= 1
        /\ EnabledCharacters(args.options) # {} /\ rnd.delivered)
        => /\ result.k = "ok"
           /\ Len(result.v) = args.length
           /\ \A i \in 1..Len(result.v) : result.v[i] \in EnabledCharacters(args.options)

C5_Witness ==
    /\ op = "randomString"
    /\ args.length = 3
    /\ args.options = [numbers |-> "false", symbols |-> "unset",
                       uppercase |-> "unset", lowercase |-> "false"]
    /\ rnd = Delivered(<<0, 58, 255>>)
    /\ result = Ok(<<65, 71, 86>>)

\* a base64Decode call on the text a base64Encode call returned
DecodesOwnEncoding == op = "base64Decode" /\ args.madeBy # <<>>

\* a text in which every surrogate code unit is half of a pair
WellFormed(s) ==
    \A i \in 1..Len(s) :
        /\ IsHighSurrogate(s[i]) => (i < Len(s) /\ IsLowSurrogate(s[i + 1]))
        /\ IsLowSurrogate(s[i]) => (i > 1 /\ IsHighSurrogate(s[i - 1]))

\* C6 as stated: base64Decode(base64Encode(s)) equals s for every text s.
C6_RoundTripOfEveryText ==
    DecodesOwnEncoding => result = Ok(args.madeBy[1].str.s)

\* C6, amended: base64Encode never fails on a text, base64Decode accepts
\* what it returned, and the decoded text equals s when no surrogate code
\* unit of s is unpaired (and only then).
C6_RoundTripOfWellFormedText ==
    /\ (op = "base64Encode" /\ IsText(args.str)) => result.k = "ok"
    /\ DecodesOwnEncoding
         => /\ result.k = "ok"
            /\ (result.v = args.madeBy[1].str.s) <=> WellFormed(args.madeBy[1].str.s)

C6_Witness ==
    /\ DecodesOwnEncoding
    /\ args.madeBy[1].str.s = <<55357, 56832, 8364>>
    /\ result = Ok(<<55357, 56832, 8364>>)

\* a text that is not base64: a character outside [A-Za-z0-9+/=], or a '='
\* that is not one of at most two '=' ending the text
NotBase64(s) ==
    \/ \E i \in 1..Len(s) : ~(IsAlnum(s[i]) \/ s[i] \in {43, 47, 61})
    \/ \E i \in 1..Len(s) :
          /\ s[i] = 61
          /\ (i <= Len(s) - 2 \/ \E j \in (i + 1)..Len(s) : s[j] # 61)

\* C7: base64Decode of a text that is not base64 fails with the generic
\* StringUtil error and the message "Invalid base64 string".
C7_NotBase64IsStringUtilError ==
    (op = "base64Decode" /\ IsText(args.str) /\ NotBase64(args.str.s))
        => result = Throw("StringUtilError", "Invalid base64 string")

C7_Witness ==
    /\ op = "base64Decode"
    /\ args.str = Str(<<81, 61, 61, 61>>)
    /\ result.k = "StringUtilError"

\* the two separator steps with the separator c taken literally: runs of c
\* collapse to one c, a leading and a trailing c are stripped
LiteralSeparatorSteps(s, c) ==
    StripEnds(ReplaceRuns(s, LAMBDA x : x = c, <<c>>), LAMBDA x : x = c)

\* C8: slugify returns for every separator, and its separator steps treat
\* the separator as a literal string.
C8_SeparatorIsLiteral ==
    (op = "slugify" /\ IsText(args.str))
        => result = Ok(LiteralSeparatorSteps(slugJoined(args.str.s, args.options),
                                             separatorOf(args.options)))

\* C9: similarity("", "") returns 100.
C9_EmptyTextsAreAlike ==
    (op = "similarity" /\ args.str1 = Str(<<>>) /\ args.str2 = Str(<<>>))
        => result = Ok(Ratio(100))

\* C10: similarity(a, b) equals similarity(b, a) for all texts a and b.
C10_SimilarityIsSymmetric ==
    (op = "similarity" /\ IsText(args.str1) /\ IsText(args.str2))
        => result = similarity(args.str2, args.str1)

C10_Witness ==
    /\ op = "similarity"
    /\ args.str1 = Str(<<97, 98, 98>>)
    /\ args.str2 = Str(<<98>>)
    /\ result = Ok(Ratio(33))

\* a text read with every run of '-', '_' or whitespace that is followed by
\* a character taken as one word boundary: the run is dropped and the
\* character after it upper-cased; a run that ends the text stays
RECURSIVE RunsAsBoundaries(_)
RunsAsBoundaries(s) ==
    IF s = <<>> THEN <<>>
    ELSE IF IsCaseSep(s[1])
         THEN LET n == CHOOSE k \in 1..Len(s) :
                           /\ \A m \in 1..k : IsCaseSep(s[m])
                           /\ (k < Len(s) => ~IsCaseSep(s[k + 1]))
              IN  IF n = Len(s) THEN s
                  ELSE <<ToUpper(s[n + 1])>>
                           \o RunsAsBoundaries(SubSeq(s, n + 2, Len(s)))
         ELSE <<s[1]>> \o RunsAsBoundaries(Tail(s))

\* C11: convertCase to camel or pascal drops every run of '-', '_' or
\* whitespace that is followed by a character and upper-cases that
\* character, so for a text in which no such run ends the text the result
\* holds no '-', '_' or whitespace.
C11_SeparatorRunsAreBoundaries ==
    (op = "convertCase" /\ args.type \in {"camel", "pascal"} /\ IsText(args.str)
        /\ (args.str.s # <<>> => ~IsCaseSep(args.str.s[Len(args.str.s)])))
        => /\ result.k = "ok"
           /\ result.v = (IF args.type = "camel"
                          THEN MapFirst(RunsAsBoundaries(args.str.s), ToLower)
                          ELSE MapFirst(RunsAsBoundaries(args.str.s), ToUpper))
           /\ \A i \in 1..Len(result.v) : ~IsCaseSep(result.v[i])

\* the text after the first ':' of an encoded value that has one
AfterFirstColon(s) ==
    LET i == CHOOSE k \in 1..Len(s) : s[k] = 58 /\ \A m \in 1..(k - 1) : s[m] # 58
    IN  SubSeq(s, i + 1, Len(s))

\* C12: verifyHash takes the text before the first ':' as the salt and all
\* the text after it as the expected digest, and returns true exactly when
\* the digest derived from str with that salt and 10 iterations equals that
\* whole remainder; a valid 'salt:digest' followed by ':' and further text
\* yields false.
C12_SplitsOnFirstColonOnly ==
    (op = "verifyHash" /\ IsText(args.str) /\ IsText(args.hashedStr))
        => result = Ok(/\ \E i \in 1..Len(args.hashedStr.s) : args.hashedStr.s[i] = 58
                       /\ pbkdf2Hex(args.str.s, SaltField(args.hashedStr.s), 10)
                              = AfterFirstColon(args.hashedStr.s))

====
